---- MODULE Spec2Model ----
(***************************************************************************)
(* Model of the WSG portal API server (src/unnamed/part_000): the          *)
(* in-memory magic-link token store, the request handlers that read and    *)
(* write it, and the handlers that look students up in the record store.   *)
(*                                                                         *)
(* A handler is an async function: it runs without interruption up to its  *)
(* next `await`, so every action below is one such run-to-await segment.   *)
(* A segment that follows an await is taken together with the outcome of   *)
(* the awaited call (records found, no record, or a thrown error).         *)
(*                                                                         *)
(* Time is Date.now() sampled at whole seconds; strings that the code      *)
(* transforms (emails) are sequences of one-character strings.             *)
(***************************************************************************)
EXTENDS Integers, Sequences, FiniteSets, TLC

VARIABLES
    magicLinkTokens,  \* the Map: token -> [email, expiresAt]
    students,         \* record store, table Students: record id -> fields
    now,              \* Date.now(), in seconds
    ticks,            \* how often the clock has advanced
    nextUuid,         \* the uuid generator: the next value uuidv4() returns
    req,              \* request slot -> the handler's position and locals
    last,             \* the request the latest step answered, with its response
                      \* (Idle when it answered none, or once that has gone out)
    resend,           \* whether RESEND_API_KEY is set (the Resend client exists)
    anthropic,        \* whether ANTHROPIC_API_KEY is set (the chat client exists)
    devMode,          \* process.env.DEV_MODE
    devTestEmail,     \* process.env.DEV_TEST_EMAIL (<<>> when unset)
    outbox,           \* emails resend.emails.send has accepted
    issued,           \* history: token -> what magicLinkTokens.set stored for it
    found,            \* history: token -> verify calls that found it in the store
    passed,           \* history: token -> verify calls that passed the expiry check
    sessions          \* history: token -> sessions returned by verify for it

vars == <<magicLinkTokens, students, now, ticks, nextUuid, req, last, resend,
          anthropic, devMode, devTestEmail, outbox, issued, found, passed, sessions>>

----------------------------------------------------------------------------
(* Bounds of the model *)

MaxInFlight == 2
MaxIssued == 2
MaxTicks == 2

Slots == 1..MaxInFlight

(* The instants at which the clock is read, in seconds: it advances by     *)
(* 15 min, then 1 s, then 14 min 59 s, and so on, so that a token issued   *)
(* at t0 = 0 is tried at t0, t0 + 15m and t0 + 15m + 1s, and one issued    *)
(* at 15m + 1s is tried 14m59s later.                                      *)
TickStep(k) == IF k % 3 = 0 THEN 900 ELSE IF k % 3 = 1 THEN 1 ELSE 899

----------------------------------------------------------------------------
(* Program constants *)

\* 15 * 60 * 1000 ms, in seconds
TOKEN_TTL == 15 * 60

\* 6 * 30 * 24 * 60 * 60 * 1000 ms, in seconds
SESSION_DURATION_MS == 6 * 30 * 24 * 60 * 60

allowedFields ==
    { "Current University / Institution", "Degree / Major", "Graduation Year",
      "GPA", "Current Clubs / Extracurriculars", "CV/Resume",
      "Short-Term Goals (1-3 Years)", "What countries do you own a passport?" }

----------------------------------------------------------------------------
(* Strings: String.prototype.toLowerCase and String.prototype.trim *)

Upper == {"J", "K", "X"}
WhiteSpace == {" "}

LowerChar(c) ==
    CASE c = "J" -> "j"
      [] c = "K" -> "k"
      [] c = "X" -> "x"
      [] OTHER -> c

toLowerCase(s) == [i \in 1..Len(s) |-> LowerChar(s[i])]

RECURSIVE trimStart(_)
trimStart(s) ==
    IF s # <<>> /\ Head(s) \in WhiteSpace THEN trimStart(Tail(s)) ELSE s

RECURSIVE trimEnd(_)
trimEnd(s) ==
    IF s # <<>> /\ s[Len(s)] \in WhiteSpace
    THEN trimEnd(SubSeq(s, 1, Len(s) - 1))
    ELSE s

trim(s) == trimEnd(trimStart(s))

\* email.toLowerCase().trim()
Normalize(email) == trim(toLowerCase(email))

----------------------------------------------------------------------------
(* The record store (Airtable), table Students *)

RecordIds == {"recJ", "recK", "recL"}

\* a record's fields: Student's Email, Name, Preferred First Name, the link
\* fields Recruitment Manager, Lead Mentor and Student-Mentor Meetings, and
\* (profile) the other fields that have a value
InitialStudents ==
    [id \in RecordIds |->
        IF id = "recJ"
        THEN [email |-> <<"j">>, name |-> "Jane Doe", firstName |-> "Jane",
              rm |-> <<"recM">>, lm |-> <<"recGone">>,
              meetings |-> <<"mtgA", "mtgB", "mtgC">>,
              profile |-> <<>>]
        ELSE IF id = "recK"
        THEN [email |-> <<"k">>, name |-> "Kim Lee", firstName |-> "",
              rm |-> <<>>, lm |-> <<>>, meetings |-> <<>>, profile |-> <<>>]
        ELSE [email |-> <<"l">>, name |-> "Lou Poe", firstName |-> "Lou",
              rm |-> <<"recM">>, lm |-> <<>>, meetings |-> <<>>, profile |-> <<>>]]

\* table Mentors (recGone, linked from recJ, is not in it)
Mentors == [id \in {"recM"} |-> [id |-> id, name |-> "Max Roe"]]

\* table Student-Mentor Meetings, with the field Mentors Attended
Meetings ==
    [id \in {"mtgA", "mtgB", "mtgC"} |->
        [id |-> id,
         mentorsAttended |-> IF id = "mtgA" THEN <<"recM">>
                             ELSE IF id = "mtgB" THEN <<>>
                             ELSE <<"recGone", "recM">>]]

\* base('Students').select({filterByFormula: `{Student's Email} = '${key}'`,
\* maxRecords: 1}).firstPage(): the ids of the records the page may hold
Matching(key) == {id \in DOMAIN students : students[id].email = key}

\* What an awaited record-store call can do: throw, or return
LookupOutcomes(key) ==
    {"throw"} \cup (IF Matching(key) = {} THEN {"none"} ELSE Matching(key))

Outcomes == RecordIds \cup {"none", "throw"}

\* res.json's student projection of a record (id, email, name, firstName)
Projection(id) ==
    [id |-> id, email |-> students[id].email,
     name |-> students[id].name, firstName |-> students[id].firstName]

----------------------------------------------------------------------------
(* Requests and responses *)

NoResp == [status |-> 0, error |-> "", details |-> "", session |-> <<>>,
           student |-> <<>>, magicLink |-> <<>>, devMode |-> FALSE,
           mentors |-> <<>>, message |-> <<>>]

\* a handler's locals: the request's email and token, normalizedEmail (the
\* email of the filterByFormula), tokenData, the Date.now() of the expiry
\* check, records (the lookup's outcome), the token issued, the record-store
\* calls made, updates, fieldsToUpdate, updatedRecord, hydrateStudent's
\* student and the getMeetingById calls in flight; and, of the calls to a
\* collaborator: those hydrateStudent made (lookups), the getMeetingById
\* calls in the order they returned (settled), those that failed (failed),
\* and the one whose error reached the handler's catch (failure)
Idle == [op |-> "idle", pc |-> "idle", email |-> <<>>, token |-> 0,
         normalizedEmail |-> <<>>, tokenData |-> <<>>, checkedAt |-> 0,
         records |-> "", issuedToken |-> 0, calls |-> 0,
         updates |-> <<>>, fieldsToUpdate |-> <<>>, updatedRecord |-> <<>>,
         student |-> <<>>, tasks |-> <<>>, lookups |-> 0, settled |-> <<>>,
         failed |-> 0, failure |-> "", resp |-> NoResp]

\* res.status(s).json({ error })
Fail(s, e) == [NoResp EXCEPT !.status = s, !.error = e]

\* err.message of the error a collaborator's call throws
ErrorMessages == {"ETIMEDOUT", "INVALID_API_KEY"}

\* catch (err) { res.status(500).json({ error: e, details: err.message }) }
Caught(e, message) == [Fail(500, e) EXCEPT !.details = message]

\* express hands a request to its handler: the slots are interchangeable, so
\* a request takes the first free one
Free(r) == req[r].pc = "idle"

Accept(r) == /\ last = Idle
             /\ Free(r)
             /\ \A q \in Slots : q < r => ~Free(q)

\* the handler of slot r, for operation op, is at the await pc, and the call
\* it awaits returns
At(r, op, pc) == last = Idle /\ req[r].op = op /\ req[r].pc = pc

\* res.json(...) / res.status(...).json(...): the handler ends, the slot is
\* free; the response is in `last` until it has gone out (Sent)
Respond(r, cur, resp) ==
    /\ req' = [req EXCEPT ![r] = Idle]
    /\ last' = [cur EXCEPT !.pc = "done", !.resp = resp]

\* the handler goes on to its next await
Continue(r, cur) ==
    /\ req' = [req EXCEPT ![r] = cur]
    /\ last' = Idle

\* the awaited call throws: the handler's catch answers 500 with error e
Throw(r, cur, call, e) ==
    \E message \in ErrorMessages :
        Respond(r, [cur EXCEPT !.failure = call, !.failed = @ + 1], Caught(e, message))

\* request bodies: email absent (<<>>), needing normalization, plain, unknown
Emails == {<<>>, <<"J", " ">>, <<"k">>, <<"x">>}

\* tokens a client may submit: none (0) or any uuid
Tokens == 0..(3 * MaxIssued + 1)

\* uuidv4(): a value never returned before
uuidv4 == nextUuid

----------------------------------------------------------------------------
(* POST /api/auth/magic-link *)

\* magic links issued so far, or that the requests in flight may yet issue
Issuing == Cardinality(DOMAIN issued)
           + Cardinality({q \in Slots : req[q].op = "magic-link" /\ req[q].pc = "lookup"})

\* Lines 164-178: up to the await of the student lookup
MagicLinkStart(r, email) ==
    /\ Accept(r)
    /\ Issuing < MaxIssued
    /\ LET cur == [Idle EXCEPT !.op = "magic-link", !.email = email] IN
       IF email = <<>>
       THEN Respond(r, cur, Fail(400, "Email is required"))
       ELSE Continue(r, [cur EXCEPT !.pc = "lookup",
                            !.normalizedEmail = Normalize(email), !.calls = 1])
    /\ UNCHANGED <<magicLinkTokens, students, now, ticks, nextUuid, resend,
                   anthropic, devMode, devTestEmail, outbox, issued, found,
                   passed, sessions>>

StoreToken_NoNow(token, email) ==
    (token :> [email |-> email, expiresAt |-> TOKEN_TTL]) @@ magicLinkTokens

\* magicLinkTokens.set(token, { email: normalizedEmail, expiresAt })
StoreToken(token, email) ==
    (token :> [email |-> email, expiresAt |-> now + TOKEN_TTL]) @@ magicLinkTokens

MagicLinkLookup_StoreFirst(r, out) ==
    /\ At(r, "magic-link", "lookup")
    /\ out \in LookupOutcomes(req[r].normalizedEmail)
    /\ LET cur == [req[r] EXCEPT !.records = out]
           token == uuidv4
           email == cur.normalizedEmail
       IN  IF out = "throw"
           THEN /\ Throw(r, cur, "lookup", "Failed to send magic link")
                /\ UNCHANGED <<magicLinkTokens, nextUuid, issued>>
           ELSE /\ nextUuid' = nextUuid + 1
                /\ magicLinkTokens' = StoreToken(token, email)
                /\ issued' = (token :> [email |-> email, at |-> now]) @@ issued
                /\ IF out = "none"
                   THEN Respond(r, cur, Fail(404, "No student found with this email"))
                   ELSE Respond(r, [cur EXCEPT !.issuedToken = token],
                           [NoResp EXCEPT !.status = 200,
                              !.devMode = TRUE, !.magicLink = <<token>>])
    /\ UNCHANGED <<students, now, ticks, resend, anthropic, devMode,
                   devTestEmail, outbox, found, passed, sessions>>

\* Lines 180-237: the lookup's outcome, the token, the email or the response
MagicLinkLookup(r, out) ==
    /\ At(r, "magic-link", "lookup")
    /\ out \in LookupOutcomes(req[r].normalizedEmail)
    /\ LET cur == [req[r] EXCEPT !.records = out] IN
       IF out = "throw"
       THEN /\ Throw(r, cur, "lookup", "Failed to send magic link")
            /\ UNCHANGED <<magicLinkTokens, nextUuid, issued>>
       ELSE IF out = "none"
       THEN /\ Respond(r, cur, Fail(404, "No student found with this email"))
            /\ UNCHANGED <<magicLinkTokens, nextUuid, issued>>
       ELSE LET token == uuidv4
                email == cur.normalizedEmail
            IN  /\ nextUuid' = nextUuid + 1
                /\ magicLinkTokens' = StoreToken(token, email)
                /\ issued' = (token :> [email |-> email, at |-> now]) @@ issued
                /\ IF resend
                   THEN Continue(r, [cur EXCEPT !.pc = "send", !.issuedToken = token])
                   ELSE Respond(r, [cur EXCEPT !.issuedToken = token],
                           [NoResp EXCEPT !.status = 200,
                              !.devMode = TRUE, !.magicLink = <<token>>])
    /\ UNCHANGED <<students, now, ticks, resend, anthropic, devMode,
                   devTestEmail, outbox, found, passed, sessions>>

MagicLinkSend_EchoesLink(r, ok) ==
    /\ At(r, "magic-link", "send")
    /\ IF ok
       THEN /\ outbox' = outbox \cup {[to |-> req[r].normalizedEmail,
                                       link |-> req[r].issuedToken]}
            /\ Respond(r, req[r], [NoResp EXCEPT !.status = 200,
                                      !.magicLink = <<req[r].issuedToken>>])
       ELSE /\ outbox' = outbox
            /\ Throw(r, req[r], "send", "Failed to send magic link")
    /\ UNCHANGED <<magicLinkTokens, students, now, ticks, nextUuid, resend,
                   anthropic, devMode, devTestEmail, issued, found, passed,
                   sessions>>

MagicLinkSend_RollsBack(r, ok) ==
    /\ At(r, "magic-link", "send")
    /\ IF ok
       THEN /\ outbox' = outbox \cup {[to |-> req[r].normalizedEmail,
                                       link |-> req[r].issuedToken]}
            /\ magicLinkTokens' = magicLinkTokens
            /\ Respond(r, req[r], [NoResp EXCEPT !.status = 200])
       ELSE /\ outbox' = outbox
            /\ magicLinkTokens' =
                  [t \in DOMAIN magicLinkTokens \ {req[r].issuedToken}
                      |-> magicLinkTokens[t]]
            /\ Throw(r, req[r], "send", "Failed to send magic link")
    /\ UNCHANGED <<students, now, ticks, nextUuid, resend, anthropic, devMode,
                   devTestEmail, issued, found, passed, sessions>>

\* Lines 203-237: await resend.emails.send(...) returns (the email, with the
\* link, is on its way to normalizedEmail), or throws
MagicLinkSend(r, ok) ==
    /\ At(r, "magic-link", "send")
    /\ IF ok
       THEN /\ outbox' = outbox \cup {[to |-> req[r].normalizedEmail,
                                       link |-> req[r].issuedToken]}
            /\ Respond(r, req[r], [NoResp EXCEPT !.status = 200])
       ELSE /\ outbox' = outbox
            /\ Throw(r, req[r], "send", "Failed to send magic link")
    /\ UNCHANGED <<magicLinkTokens, students, now, ticks, nextUuid, resend,
                   anthropic, devMode, devTestEmail, issued, found, passed,
                   sessions>>

----------------------------------------------------------------------------
(* POST /api/auth/verify *)

DeleteToken_AllForEmail(token) ==
    [t \in {u \in DOMAIN magicLinkTokens :
               magicLinkTokens[u].email # magicLinkTokens[token].email}
        |-> magicLinkTokens[t]]

DeleteToken_Forgotten(token) == magicLinkTokens

\* magicLinkTokens.delete(token)
DeleteToken(token) ==
    [t \in DOMAIN magicLinkTokens \ {token} |-> magicLinkTokens[t]]

Expired_Never(tokenData) == FALSE

\* Date.now() > tokenData.expiresAt
Expired(tokenData) == now > tokenData.expiresAt

VerifyStart_DeleteOnExpiryOnly(r, token) ==
    /\ Accept(r)
    /\ LET cur == [Idle EXCEPT !.op = "verify", !.token = token] IN
       IF token = 0
       THEN /\ Respond(r, cur, Fail(400, "Token is required"))
            /\ UNCHANGED <<magicLinkTokens, found, passed>>
       ELSE IF token \notin DOMAIN magicLinkTokens
       THEN /\ Respond(r, cur, Fail(401, "Invalid or expired link"))
            /\ UNCHANGED <<magicLinkTokens, found, passed>>
       ELSE LET tokenData == magicLinkTokens[token]
                got == [cur EXCEPT !.tokenData = <<tokenData>>, !.checkedAt = now]
            IN  /\ found' = [found EXCEPT ![token] = @ + 1]
                /\ IF Expired(tokenData)
                   THEN /\ magicLinkTokens' = DeleteToken(token)
                        /\ passed' = passed
                        /\ Respond(r, got,
                              Fail(401, "Link has expired. Please request a new one."))
                   ELSE /\ magicLinkTokens' = magicLinkTokens
                        /\ passed' = [passed EXCEPT ![token] = @ + 1]
                        /\ Continue(r, [got EXCEPT !.pc = "lookup", !.calls = 1])
    /\ UNCHANGED <<students, now, ticks, nextUuid, resend, anthropic, devMode,
                   devTestEmail, outbox, issued, sessions>>

\* Lines 295-323: up to the await of the student lookup
VerifyStart(r, token) ==
    /\ Accept(r)
    /\ LET cur == [Idle EXCEPT !.op = "verify", !.token = token] IN
       IF token = 0
       THEN /\ Respond(r, cur, Fail(400, "Token is required"))
            /\ UNCHANGED <<magicLinkTokens, found, passed>>
       ELSE IF token \notin DOMAIN magicLinkTokens
       THEN /\ Respond(r, cur, Fail(401, "Invalid or expired link"))
            /\ UNCHANGED <<magicLinkTokens, found, passed>>
       ELSE LET tokenData == magicLinkTokens[token]
                got == [cur EXCEPT !.tokenData = <<tokenData>>, !.checkedAt = now]
            IN  /\ found' = [found EXCEPT ![token] = @ + 1]
                /\ magicLinkTokens' = DeleteToken(token)
                /\ IF Expired(tokenData)
                   THEN /\ passed' = passed
                        /\ Respond(r, got,
                              Fail(401, "Link has expired. Please request a new one."))
                   ELSE /\ passed' = [passed EXCEPT ![token] = @ + 1]
                        /\ Continue(r, [got EXCEPT !.pc = "lookup", !.calls = 1])
    /\ UNCHANGED <<students, now, ticks, nextUuid, resend, anthropic, devMode,
                   devTestEmail, outbox, issued, sessions>>

\* uuidv4() and Date.now() + SESSION_DURATION_MS
Session(uuid) == [token |-> uuid, expiresAt |-> now + SESSION_DURATION_MS]

VerifyKey_LatestIssued(r) ==
    issued[CHOOSE t \in DOMAIN issued : \A u \in DOMAIN issued : u <= t].email

\* the email of the lookup's filterByFormula: tokenData.email
VerifyKey(r) == req[r].tokenData[1].email

VerifyLookup_RestoreOnFailure(r, out) ==
    /\ At(r, "verify", "lookup")
    /\ out \in LookupOutcomes(VerifyKey(r))
    /\ LET cur == [req[r] EXCEPT !.records = out] IN
       IF out \in {"throw", "none"}
       THEN /\ IF out = "throw" THEN Throw(r, cur, "lookup", "Verification failed")
               ELSE Respond(r, cur, Fail(404, "Student not found"))
            /\ magicLinkTokens' = (cur.token :> cur.tokenData[1]) @@ magicLinkTokens
            /\ UNCHANGED <<nextUuid, sessions>>
       ELSE /\ nextUuid' = nextUuid + 1
            /\ magicLinkTokens' = magicLinkTokens
            /\ sessions' = [sessions EXCEPT ![cur.token] = @ + 1]
            /\ Respond(r, cur,
                  [NoResp EXCEPT !.status = 200,
                     !.session = <<Session(uuidv4)>>,
                     !.student = <<Projection(out)>>])
    /\ UNCHANGED <<students, now, ticks, resend, anthropic, devMode,
                   devTestEmail, outbox, issued, found, passed>>

\* Lines 318-352: the lookup's outcome and the response
VerifyLookup(r, out) ==
    /\ At(r, "verify", "lookup")
    /\ out \in LookupOutcomes(VerifyKey(r))
    /\ LET cur == [req[r] EXCEPT !.records = out] IN
       IF out = "throw"
       THEN /\ Throw(r, cur, "lookup", "Verification failed")
            /\ UNCHANGED <<nextUuid, sessions>>
       ELSE IF out = "none"
       THEN /\ Respond(r, cur, Fail(404, "Student not found"))
            /\ UNCHANGED <<nextUuid, sessions>>
       ELSE /\ nextUuid' = nextUuid + 1
            /\ sessions' = [sessions EXCEPT ![cur.token] = @ + 1]
            /\ Respond(r, cur,
                  [NoResp EXCEPT !.status = 200,
                     !.session = <<Session(uuidv4)>>,
                     !.student = <<Projection(out)>>])
    /\ UNCHANGED <<magicLinkTokens, students, now, ticks, resend, anthropic,
                   devMode, devTestEmail, outbox, issued, found, passed>>

----------------------------------------------------------------------------
(* POST /api/auth/dev-login *)

DevEnabled_UnlessFalse == devMode # "false"

\* process.env.DEV_MODE !== 'true' answers 403
DevEnabled == devMode = "true"

\* email || process.env.DEV_TEST_EMAIL || 'test@example.com'
TestEmail(email) ==
    IF email # <<>> THEN email
    ELSE IF devTestEmail # <<>> THEN devTestEmail
    ELSE <<"t">>

\* sessions minted so far, or that the dev-login requests in flight may mint
Minting == nextUuid - 1
           + Cardinality({q \in Slots : req[q].op = "dev-login" /\ req[q].pc = "lookup"})

\* Lines 243-258: up to the await of the student lookup
DevLoginStart(r, email) ==
    /\ Accept(r)
    /\ LET cur == [Idle EXCEPT !.op = "dev-login", !.email = email] IN
       IF ~DevEnabled
       THEN Respond(r, cur, Fail(403, "Dev login not available in production"))
       ELSE /\ Minting < MaxIssued
            /\ Continue(r, [cur EXCEPT !.pc = "lookup",
                               !.normalizedEmail = Normalize(TestEmail(email)),
                               !.calls = 1])
    /\ UNCHANGED <<magicLinkTokens, students, now, ticks, nextUuid, resend,
                   anthropic, devMode, devTestEmail, outbox, issued, found,
                   passed, sessions>>

\* Lines 260-289: the lookup's outcome and the response
DevLoginLookup(r, out) ==
    /\ At(r, "dev-login", "lookup")
    /\ out \in LookupOutcomes(req[r].normalizedEmail)
    /\ LET cur == [req[r] EXCEPT !.records = out] IN
       IF out = "throw"
       THEN /\ Throw(r, cur, "lookup", "Dev login failed")
            /\ nextUuid' = nextUuid
       ELSE IF out = "none"
       THEN /\ Respond(r, cur, Fail(404, "No student found with email"))
            /\ nextUuid' = nextUuid
       ELSE /\ nextUuid' = nextUuid + 1
            /\ Respond(r, cur,
                  [NoResp EXCEPT !.status = 200,
                     !.session = <<Session(uuidv4)>>,
                     !.student = <<Projection(out)>>])
    /\ UNCHANGED <<magicLinkTokens, students, now, ticks, resend, anthropic,
                   devMode, devTestEmail, outbox, issued, found, passed,
                   sessions>>

----------------------------------------------------------------------------
(* hydrateStudent, getMentorById, getMeetingById *)

\* what await getMentorById(id) can return: the mentor, or null (<<>>) when
\* base('Mentors').find throws (no such record, or a failed call)
MentorOutcomes(id) ==
    {<<>>} \cup (IF id \in DOMAIN Mentors THEN {<<Mentors[id]>>} ELSE {})

\* what await base('Student-Mentor Meetings').find(id) can do
MeetingOutcomes(id) ==
    {<<>>} \cup (IF id \in DOMAIN Meetings THEN {<<Meetings[id]>>} ELSE {})

\* Lines 99-102: const student = { id: record.id, ...record.fields }
StudentOf(record) ==
    [id |-> record.id, fields |-> record.fields,
     recruitmentManager |-> <<>>, leadMentor |-> <<>>, meetings |-> <<>>]

\* meetingIds.map(id => getMeetingById(id)): every call runs to its first await
StartMeetings(ids) == [i \in 1..Len(ids) |-> [id |-> ids[i], st |-> "find", val |-> <<>>]]

AllSettled(tasks) == \A i \in 1..Len(tasks) : tasks[i].st = "done"

RECURSIVE NonNull(_)
\* meetings.filter(m => m !== null), on the results in the order of the ids
NonNull(tasks) ==
    IF tasks = <<>> THEN <<>>
    ELSE tasks[1].val \o NonNull(Tail(tasks))

\* res.json(student) of GET /student/:email, res.json({ success: true,
\* student: updatedStudent }) of POST /api/student/update
Finish(r, cur) ==
    Respond(r, cur, [NoResp EXCEPT !.status = 200, !.student = cur.student])

Hydrate_AwaitsEmptyFanOut(r, cur, stage) ==
    LET f == cur.student[1].fields IN
    IF stage = "rm" /\ f.rm # <<>>
    THEN Continue(r, [cur EXCEPT !.pc = "rm", !.lookups = @ + 1])
    ELSE IF stage \in {"rm", "lm"} /\ f.lm # <<>>
    THEN Continue(r, [cur EXCEPT !.pc = "lm", !.lookups = @ + 1])
    ELSE Continue(r, [cur EXCEPT !.pc = "meetings", !.lookups = @ + Len(f.meetings),
                                 !.tasks = StartMeetings(f.meetings)])

\* the lookups of a hydrateStudent call that are in flight: the Recruitment
\* Manager's, the Lead Mentor's, those of the meetings (by index)
InFlight(q) ==
    IF q.pc = "rm" THEN {"rm"}
    ELSE IF q.pc = "lm" THEN {"lm"}
    ELSE IF q.pc = "meetings"
    THEN {i \in DOMAIN q.tasks : q.tasks[i].st # "done"}
    ELSE {}

\* hydrateStudent from the given stage on, up to its next await: the
\* Recruitment Manager (line 106), the Lead Mentor (line 115), the meetings
\* (line 124), or the return when nothing is linked
Hydrate(r, cur, stage) ==
    LET f == cur.student[1].fields IN
    IF stage = "rm" /\ f.rm # <<>>
    THEN Continue(r, [cur EXCEPT !.pc = "rm", !.lookups = @ + 1])
    ELSE IF stage \in {"rm", "lm"} /\ f.lm # <<>>
    THEN Continue(r, [cur EXCEPT !.pc = "lm", !.lookups = @ + 1])
    ELSE IF f.meetings # <<>>
    THEN Continue(r, [cur EXCEPT !.pc = "meetings", !.lookups = @ + Len(f.meetings),
                                 !.tasks = StartMeetings(f.meetings)])
    ELSE Finish(r, cur)

\* Lines 62-65: a call of getMentorById or getMeetingById that returned
\* null had its find throw, and caught it
Swallowed(out) == IF out = <<>> THEN 1 ELSE 0

\* Lines 107-110 and 116-119: await getMentorById(...) returns
HydrateMentor(r, m) ==
    /\ last = Idle
    /\ req[r].pc \in {"rm", "lm"}
    /\ LET f == req[r].student[1].fields
           cur == [req[r] EXCEPT !.failed = @ + Swallowed(m)]
       IN  IF req[r].pc = "rm"
           THEN /\ m \in MentorOutcomes(f.rm[1])
                /\ Hydrate(r, [cur EXCEPT !.student[1].recruitmentManager = m], "lm")
           ELSE /\ m \in MentorOutcomes(f.lm[1])
                /\ Hydrate(r, [cur EXCEPT !.student[1].leadMentor = m], "meetings")
    /\ UNCHANGED <<magicLinkTokens, students, now, ticks, nextUuid, resend,
                   anthropic, devMode, devTestEmail, outbox, issued, found,
                   passed, sessions>>

RECURSIVE ByArrival(_, _)
ByArrival(tasks, settled) ==
    IF settled = <<>> THEN <<>>
    ELSE tasks[settled[1]].val \o ByArrival(tasks, Tail(settled))

Settle_ByArrival(r, cur) ==
    IF AllSettled(cur.tasks)
    THEN Finish(r, [cur EXCEPT !.student[1].meetings = ByArrival(cur.tasks, cur.settled)])
    ELSE Continue(r, cur)

\* Lines 125-128: Promise.all resolves once every getMeetingById has
Settle(r, cur) ==
    IF AllSettled(cur.tasks)
    THEN Finish(r, [cur EXCEPT !.student[1].meetings = NonNull(cur.tasks)])
    ELSE Continue(r, cur)

\* Lines 73-86: getMeetingById(tasks[i].id), find returns or throws
MeetingFind(r, i, out) ==
    /\ last = Idle
    /\ req[r].pc = "meetings"
    /\ i \in 1..Len(req[r].tasks)
    /\ req[r].tasks[i].st = "find"
    /\ out \in MeetingOutcomes(req[r].tasks[i].id)
    /\ LET meeting == [id |-> out[1].id, mentorsAttended |-> out[1].mentorsAttended,
                       mentorAttended |-> <<>>] IN
       IF out = <<>>
       THEN Settle(r, [req[r] EXCEPT !.tasks[i].st = "done", !.failed = @ + 1,
                                     !.settled = Append(@, i)])
       ELSE IF out[1].mentorsAttended # <<>>
       THEN Continue(r, [req[r] EXCEPT !.tasks[i].st = "mentor", !.lookups = @ + 1,
                                       !.tasks[i].val = <<meeting>>])
       ELSE Settle(r, [req[r] EXCEPT !.tasks[i].st = "done",
                                     !.tasks[i].val = <<meeting>>,
                                     !.settled = Append(@, i)])
    /\ UNCHANGED <<magicLinkTokens, students, now, ticks, nextUuid, resend,
                   anthropic, devMode, devTestEmail, outbox, issued, found,
                   passed, sessions>>

MeetingMentor_DropsMeeting(r, i, m) ==
    /\ last = Idle
    /\ req[r].pc = "meetings"
    /\ i \in 1..Len(req[r].tasks)
    /\ req[r].tasks[i].st = "mentor"
    /\ m \in MentorOutcomes(req[r].tasks[i].val[1].mentorsAttended[1])
    /\ Settle(r, [req[r] EXCEPT !.tasks[i].st = "done",
                                !.tasks[i].val = IF m = <<>> THEN <<>>
                                                 ELSE <<[@[1] EXCEPT !.mentorAttended = m]>>,
                                !.failed = @ + Swallowed(m),
                                !.settled = Append(@, i)])
    /\ UNCHANGED <<magicLinkTokens, students, now, ticks, nextUuid, resend,
                   anthropic, devMode, devTestEmail, outbox, issued, found,
                   passed, sessions>>

\* Lines 82-88: getMeetingById's await getMentorById(mentorIds[0]) returns
MeetingMentor(r, i, m) ==
    /\ last = Idle
    /\ req[r].pc = "meetings"
    /\ i \in 1..Len(req[r].tasks)
    /\ req[r].tasks[i].st = "mentor"
    /\ m \in MentorOutcomes(req[r].tasks[i].val[1].mentorsAttended[1])
    /\ Settle(r, [req[r] EXCEPT !.tasks[i].st = "done",
                                !.tasks[i].val[1].mentorAttended = m,
                                !.failed = @ + Swallowed(m),
                                !.settled = Append(@, i)])
    /\ UNCHANGED <<magicLinkTokens, students, now, ticks, nextUuid, resend,
                   anthropic, devMode, devTestEmail, outbox, issued, found,
                   passed, sessions>>

----------------------------------------------------------------------------
(* GET /student/:email *)

\* the record the store returns: its id and its fields
Record(id) == [id |-> id, fields |-> students[id]]

\* Lines 470-471 and 141-146: getStudentByEmail(req.params.email), up to
\* the await of the lookup
StudentStart(r, email) ==
    /\ Accept(r)
    /\ email # <<>>
    /\ Continue(r, [Idle EXCEPT !.op = "student", !.email = email, !.pc = "lookup",
                                !.normalizedEmail = email, !.calls = 1])
    /\ UNCHANGED <<magicLinkTokens, students, now, ticks, nextUuid, resend,
                   anthropic, devMode, devTestEmail, outbox, issued, found,
                   passed, sessions>>

\* Lines 148-156 and 473-480: the lookup's outcome
StudentLookup(r, out) ==
    /\ At(r, "student", "lookup")
    /\ out \in LookupOutcomes(req[r].normalizedEmail)
    /\ LET cur == [req[r] EXCEPT !.records = out] IN
       IF out = "throw"
       THEN Throw(r, cur, "lookup", "Failed to fetch student")
       ELSE IF out = "none"
       THEN Respond(r, cur, Fail(404, "Student not found"))
       ELSE Hydrate(r, [cur EXCEPT !.student = <<StudentOf(Record(out))>>], "rm")
    /\ UNCHANGED <<magicLinkTokens, students, now, ticks, nextUuid, resend,
                   anthropic, devMode, devTestEmail, outbox, issued, found,
                   passed, sessions>>

----------------------------------------------------------------------------
(* POST /api/student/update *)

\* JSON values of a request body
JsonValues == {"null", "''", "'3.9'"}

\* the fields a client may name: one on the allow-list, one that is not
BodyFields == {"GPA", "Name"}

\* the updates objects of the requests; <<>> stands for a body without one
UpdatesObjects ==
    UNION {[fs -> JsonValues] : fs \in SUBSET BodyFields}

FieldsToUpdate_NoAllowList(updates) ==
    [f \in {g \in DOMAIN updates : updates[g] # "null"} |-> updates[f]]

\* Lines 513-533: the allow-listed fields of updates whose value is neither
\* null nor undefined
FieldsToUpdate(updates) ==
    [f \in {g \in allowedFields \cap DOMAIN updates : updates[g] # "null"}
        |-> updates[f]]

\* Lines 486-504: up to the await of the student lookup
UpdateStart(r, email, hasUpdates, updates) ==
    /\ Accept(r)
    /\ LET cur == [Idle EXCEPT !.op = "update", !.email = email,
                               !.updates = IF hasUpdates THEN <<updates>> ELSE <<>>] IN
       IF email = <<>>
       THEN Respond(r, cur, Fail(400, "Email is required"))
       ELSE IF ~hasUpdates
       THEN Respond(r, cur, Fail(400, "Updates object is required"))
       ELSE Continue(r, [cur EXCEPT !.pc = "lookup",
                            !.normalizedEmail = Normalize(email), !.calls = 1])
    /\ UNCHANGED <<magicLinkTokens, students, now, ticks, nextUuid, resend,
                   anthropic, devMode, devTestEmail, outbox, issued, found,
                   passed, sessions>>

\* Lines 506-536: the lookup's outcome, fieldsToUpdate, and the call of
\* base('Students').update(studentRecord.id, fieldsToUpdate)
UpdateLookup(r, out) ==
    /\ At(r, "update", "lookup")
    /\ out \in LookupOutcomes(req[r].normalizedEmail)
    /\ LET cur == [req[r] EXCEPT !.records = out] IN
       IF out = "throw"
       THEN Throw(r, cur, "lookup", "Failed to update student profile")
       ELSE IF out = "none"
       THEN Respond(r, cur, Fail(404, "Student not found"))
       ELSE Continue(r, [cur EXCEPT !.pc = "update", !.calls = 2,
                            !.fieldsToUpdate = FieldsToUpdate(cur.updates[1])])
    /\ UNCHANGED <<magicLinkTokens, students, now, ticks, nextUuid, resend,
                   anthropic, devMode, devTestEmail, outbox, issued, found,
                   passed, sessions>>

\* the record store's update: the given fields are written over the
\* record's, and the updated record is returned
Written(id, fields) ==
    [students[id] EXCEPT !.profile = fields @@ students[id].profile]

\* Lines 536-549: await base('Students').update(...) returns the updated
\* record, or throws (also when the record is gone)
UpdateWrite(r, ok) ==
    /\ At(r, "update", "update")
    /\ LET id == req[r].records IN
       IF ok /\ id \in DOMAIN students
       THEN LET rec == [id |-> id, fields |-> Written(id, req[r].fieldsToUpdate)] IN
            /\ students' = [students EXCEPT ![id] = rec.fields]
            /\ Hydrate(r, [req[r] EXCEPT !.updatedRecord = <<rec>>,
                                         !.student = <<StudentOf(rec)>>], "rm")
       ELSE /\ students' = students
            /\ Throw(r, req[r], "update", "Failed to update student profile")
    /\ UNCHANGED <<magicLinkTokens, now, ticks, nextUuid, resend, anthropic,
                   devMode, devTestEmail, outbox, issued, found, passed,
                   sessions>>

----------------------------------------------------------------------------
(* GET /api/mentors *)

\* Lines 435-440: up to the await of select(...).all()
MentorsStart(r) ==
    /\ Accept(r)
    /\ Continue(r, [Idle EXCEPT !.op = "mentors", !.pc = "all", !.calls = 1])
    /\ UNCHANGED <<magicLinkTokens, students, now, ticks, nextUuid, resend,
                   anthropic, devMode, devTestEmail, outbox, issued, found,
                   passed, sessions>>

MentorsAll_EmptyOnFailure(r, ok) ==
    /\ At(r, "mentors", "all")
    /\ Respond(r, [req[r] EXCEPT !.failed = @ + (IF ok THEN 0 ELSE 1)],
          [NoResp EXCEPT !.status = 200,
              !.mentors = IF ok THEN <<{Mentors[id] : id \in DOMAIN Mentors}>>
                          ELSE <<{}>>])
    /\ UNCHANGED <<magicLinkTokens, students, now, ticks, nextUuid, resend,
                   anthropic, devMode, devTestEmail, outbox, issued, found,
                   passed, sessions>>

\* Lines 442-465: the records, mapped, or the error
MentorsAll(r, ok) ==
    /\ At(r, "mentors", "all")
    /\ IF ok
       THEN Respond(r, req[r],
               [NoResp EXCEPT !.status = 200,
                              !.mentors = <<{Mentors[id] : id \in DOMAIN Mentors}>>])
       ELSE Throw(r, req[r], "all", "Failed to fetch mentors")
    /\ UNCHANGED <<magicLinkTokens, students, now, ticks, nextUuid, resend,
                   anthropic, devMode, devTestEmail, outbox, issued, found,
                   passed, sessions>>

----------------------------------------------------------------------------
(* POST /api/chat *)

\* req.body.message
Messages == {<<>>, <<"hi">>}

\* Lines 358-417: up to the await of anthropic.messages.create
ChatStart(r, message) ==
    /\ Accept(r)
    /\ LET cur == [Idle EXCEPT !.op = "chat"] IN
       IF ~anthropic
       THEN Respond(r, cur, Fail(503, "AI service not configured"))
       ELSE IF message = <<>>
       THEN Respond(r, cur, Fail(400, "Message is required"))
       ELSE Continue(r, [cur EXCEPT !.pc = "create", !.calls = 1])
    /\ UNCHANGED <<magicLinkTokens, students, now, ticks, nextUuid, resend,
                   anthropic, devMode, devTestEmail, outbox, issued, found,
                   passed, sessions>>

\* what await anthropic.messages.create(...) can do: return a response
\* whose content has a first block, return one without, or throw
ChatOutcomes == {"text", "empty", "throw"}

\* Lines 419-429: response.content[0].text, or the error
ChatCreate(r, out) ==
    /\ At(r, "chat", "create")
    /\ out \in ChatOutcomes
    /\ IF out = "throw"
       THEN Throw(r, req[r], "create", "Failed to get AI response")
       ELSE IF out = "empty"
       THEN Respond(r, req[r], Caught("Failed to get AI response", "TypeError"))
       ELSE Respond(r, req[r], [NoResp EXCEPT !.status = 200, !.message = <<"reply">>])
    /\ UNCHANGED <<magicLinkTokens, students, now, ticks, nextUuid, resend,
                   anthropic, devMode, devTestEmail, outbox, issued, found,
                   passed, sessions>>

----------------------------------------------------------------------------
(* The environment: the clock, and the record store changing upstream *)

Tick_PurgesExpired ==
    /\ last = Idle
    /\ ticks < MaxTicks
    /\ now' = now + TickStep(ticks)
    /\ ticks' = ticks + 1
    /\ last' = Idle
    /\ magicLinkTokens' = [t \in {u \in DOMAIN magicLinkTokens :
                                     now' <= magicLinkTokens[u].expiresAt}
                              |-> magicLinkTokens[t]]
    /\ UNCHANGED <<students, nextUuid, req, resend, anthropic, devMode,
                   devTestEmail, outbox, issued, found, passed, sessions>>

Tick ==
    /\ last = Idle
    /\ ticks < MaxTicks
    /\ now' = now + TickStep(ticks)
    /\ ticks' = ticks + 1
    /\ last' = Idle
    /\ UNCHANGED <<magicLinkTokens, students, nextUuid, req, resend,
                   anthropic, devMode, devTestEmail, outbox, issued, found,
                   passed, sessions>>

\* a student record is deleted upstream
DeleteStudent(id) ==
    /\ last = Idle
    /\ id \in DOMAIN students
    /\ students' = [i \in DOMAIN students \ {id} |-> students[i]]
    /\ last' = Idle
    /\ UNCHANGED <<magicLinkTokens, now, ticks, nextUuid, req, resend,
                   anthropic, devMode, devTestEmail, outbox, issued, found,
                   passed, sessions>>

\* the response of the latest step has gone out
Sent ==
    /\ last # Idle
    /\ last' = Idle
    /\ UNCHANGED <<magicLinkTokens, students, now, ticks, nextUuid, req,
                   resend, anthropic, devMode, devTestEmail, outbox, issued,
                   found, passed, sessions>>

----------------------------------------------------------------------------
(* The server after start-up *)

Start ==
    /\ magicLinkTokens = <<>>
    /\ students = InitialStudents
    /\ now = 0
    /\ ticks = 0
    /\ nextUuid = 1
    /\ req = [r \in Slots |-> Idle]
    /\ last = Idle
    /\ outbox = {}
    /\ issued = <<>>
    /\ found = [t \in Tokens |-> 0]
    /\ passed = [t \in Tokens |-> 0]
    /\ sessions = [t \in Tokens |-> 0]

(* Magic links and their redemption, two requests at a time, with no email  *)
(* delivery configured (the magic link is returned in the response)         *)
Init ==
    /\ Start
    /\ resend = FALSE /\ anthropic = FALSE
    /\ devMode = "unset" /\ devTestEmail = <<>>

Next ==
    \/ \E r \in {1, 2}, email \in Emails : MagicLinkStart(r, email)
    \/ \E r \in {1, 2}, out \in Outcomes : MagicLinkLookup(r, out)
    \/ \E r \in {1, 2}, token \in 0..nextUuid : VerifyStart(r, token)
    \/ \E r \in {1, 2}, out \in Outcomes : VerifyLookup(r, out)
    \/ Tick
    \/ DeleteStudent("recJ")
    \/ Sent

Spec == Init /\ [][Next]_vars

(* The same handlers, MaxInFlight requests at a time, the clock standing     *)
(* still: every interleaving of the handlers' segments                      *)
NextConc ==
    \/ \E r \in Slots, email \in Emails : MagicLinkStart(r, email)
    \/ \E r \in Slots, out \in Outcomes : MagicLinkLookup(r, out)
    \/ \E r \in Slots, token \in 0..nextUuid : VerifyStart(r, token)
    \/ \E r \in Slots, out \in Outcomes : VerifyLookup(r, out)
    \/ DeleteStudent("recJ")
    \/ Sent

SpecConc == Init /\ [][NextConc]_vars

(* Magic links with and without email delivery configured, the clock        *)
(* standing still                                                           *)
InitMail ==
    /\ Start
    /\ resend \in BOOLEAN /\ anthropic = FALSE
    /\ devMode = "unset" /\ devTestEmail = <<>>

NextMail ==
    \/ \E r \in {1, 2}, email \in Emails : MagicLinkStart(r, email)
    \/ \E r \in {1, 2}, out \in Outcomes : MagicLinkLookup(r, out)
    \/ \E r \in {1, 2}, ok \in BOOLEAN : MagicLinkSend(r, ok)
    \/ \E r \in {1, 2}, token \in 0..nextUuid : VerifyStart(r, token)
    \/ \E r \in {1, 2}, out \in Outcomes : VerifyLookup(r, out)
    \/ DeleteStudent("recJ")
    \/ Sent

SpecMail == InitMail /\ [][NextMail]_vars

(* Magic links with email delivery configured, one request at a time, the   *)
(* clock running                                                            *)
InitSend ==
    /\ Start
    /\ resend = TRUE /\ anthropic = FALSE
    /\ devMode = "unset" /\ devTestEmail = <<>>

NextSend ==
    \/ \E email \in Emails : MagicLinkStart(1, email)
    \/ \E out \in Outcomes : MagicLinkLookup(1, out)
    \/ \E ok \in BOOLEAN : MagicLinkSend(1, ok)
    \/ \E token \in 0..nextUuid : VerifyStart(1, token)
    \/ \E out \in Outcomes : VerifyLookup(1, out)
    \/ Tick
    \/ Sent

SpecSend == InitSend /\ [][NextSend]_vars

(* The dev-login bypass under every setting of DEV_MODE and of           *)
(* DEV_TEST_EMAIL                                                           *)
InitDev ==
    /\ Start
    /\ resend = FALSE /\ anthropic = FALSE
    /\ devMode \in {"true", "TRUE", "false", "unset"}
    /\ devTestEmail \in {<<>>, <<"K">>}

NextDev ==
    \/ \E r \in Slots, email \in Emails : DevLoginStart(r, email)
    \/ \E r \in Slots, out \in Outcomes : DevLoginLookup(r, out)
    \/ DeleteStudent("recJ")
    \/ Sent

SpecDev == InitDev /\ [][NextDev]_vars

(* Student fetch and update, one request at a time *)
PathEmails == {<<"J", " ">>, <<"j">>, <<"k">>, <<"x">>}

NextStudent ==
    \/ \E r \in {1}, email \in PathEmails : StudentStart(r, email)
    \/ \E r \in {1}, out \in Outcomes : StudentLookup(r, out)
    \/ \E r \in {1}, email \in Emails, has \in BOOLEAN, updates \in UpdatesObjects :
          UpdateStart(r, email, has, updates)
    \/ \E r \in {1}, out \in Outcomes : UpdateLookup(r, out)
    \/ \E r \in {1}, ok \in BOOLEAN : UpdateWrite(r, ok)
    \/ \E r \in {1}, m \in {<<>>} \cup {<<Mentors[id]>> : id \in DOMAIN Mentors} :
          HydrateMentor(r, m)
    \/ \E r \in {1} : \E i \in DOMAIN req[r].tasks,
          out \in {<<>>} \cup {<<Meetings[id]>> : id \in DOMAIN Meetings} :
          MeetingFind(r, i, out)
    \/ \E r \in {1} : \E i \in DOMAIN req[r].tasks,
          m \in {<<>>} \cup {<<Mentors[id]>> : id \in DOMAIN Mentors} :
          MeetingMentor(r, i, m)
    \/ DeleteStudent("recJ")
    \/ Sent

SpecStudent == Init /\ [][NextStudent]_vars

(* Student fetch, MaxInFlight requests at a time *)
NextFetch ==
    \/ \E r \in Slots, email \in PathEmails : StudentStart(r, email)
    \/ \E r \in Slots, out \in Outcomes : StudentLookup(r, out)
    \/ \E r \in Slots, m \in {<<>>} \cup {<<Mentors[id]>> : id \in DOMAIN Mentors} :
          HydrateMentor(r, m)
    \/ \E r \in Slots : \E i \in DOMAIN req[r].tasks,
          out \in {<<>>} \cup {<<Meetings[id]>> : id \in DOMAIN Meetings} :
          MeetingFind(r, i, out)
    \/ \E r \in Slots : \E i \in DOMAIN req[r].tasks,
          m \in {<<>>} \cup {<<Mentors[id]>> : id \in DOMAIN Mentors} :
          MeetingMentor(r, i, m)
    \/ DeleteStudent("recJ")
    \/ Sent

SpecFetch == Init /\ [][NextFetch]_vars

(* Every endpoint, one request at a time, the clock standing still: with   *)
(* email delivery, the chat client and the dev bypass all configured, or    *)
(* none of them                                                             *)
InitAll ==
    /\ Start
    /\ \/ resend = TRUE /\ anthropic = TRUE /\ devMode = "true"
       \/ resend = FALSE /\ anthropic = FALSE /\ devMode = "unset"
    /\ devTestEmail = <<>>

NextAll ==
    \/ \E email \in {<<>>, <<"J", " ">>, <<"x">>} : MagicLinkStart(1, email)
    \/ \E out \in Outcomes : MagicLinkLookup(1, out)
    \/ \E ok \in BOOLEAN : MagicLinkSend(1, ok)
    \/ \E token \in 0..nextUuid : VerifyStart(1, token)
    \/ \E out \in Outcomes : VerifyLookup(1, out)
    \/ \E email \in {<<>>, <<"k">>} : DevLoginStart(1, email)
    \/ \E out \in Outcomes : DevLoginLookup(1, out)
    \/ \E email \in {<<"l">>, <<"x">>} : StudentStart(1, email)
    \/ \E out \in Outcomes : StudentLookup(1, out)
    \/ \E email \in {<<>>, <<"l">>}, has \in BOOLEAN :
          UpdateStart(1, email, has, [f \in {"GPA"} |-> "'3.9'"])
    \/ \E out \in Outcomes : UpdateLookup(1, out)
    \/ \E ok \in BOOLEAN : UpdateWrite(1, ok)
    \/ \E m \in {<<>>} \cup {<<Mentors[id]>> : id \in DOMAIN Mentors} :
          HydrateMentor(1, m)
    \/ MentorsStart(1)
    \/ \E ok \in BOOLEAN : MentorsAll(1, ok)
    \/ \E message \in Messages : ChatStart(1, message)
    \/ \E out \in ChatOutcomes : ChatCreate(1, out)
    \/ Sent

\* the call the handler awaits returns or throws and the handler goes on,
\* or the response goes out
Resume ==
    \/ \E out \in Outcomes : MagicLinkLookup(1, out)
    \/ \E ok \in BOOLEAN : MagicLinkSend(1, ok)
    \/ \E out \in Outcomes : VerifyLookup(1, out)
    \/ \E out \in Outcomes : DevLoginLookup(1, out)
    \/ \E out \in Outcomes : StudentLookup(1, out)
    \/ \E out \in Outcomes : UpdateLookup(1, out)
    \/ \E ok \in BOOLEAN : UpdateWrite(1, ok)
    \/ \E m \in {<<>>} \cup {<<Mentors[id]>> : id \in DOMAIN Mentors} :
          HydrateMentor(1, m)
    \/ \E ok \in BOOLEAN : MentorsAll(1, ok)
    \/ \E out \in ChatOutcomes : ChatCreate(1, out)
    \/ Sent

\* every awaited call settles, and the event loop then runs the handler on
SpecAll == InitAll /\ [][NextAll]_vars /\ WF_vars(Resume)

(* Every endpoint, one request at a time, the clock running: no email       *)
(* delivery, the chat client and the dev bypass configured                  *)
InitFrame ==
    /\ Start
    /\ resend = FALSE /\ anthropic = TRUE
    /\ devMode = "true" /\ devTestEmail = <<>>

NextFrame ==
    \/ \E email \in {<<"J", " ">>, <<"x">>} : MagicLinkStart(1, email)
    \/ \E out \in Outcomes : MagicLinkLookup(1, out)
    \/ \E token \in 0..nextUuid : VerifyStart(1, token)
    \/ \E out \in Outcomes : VerifyLookup(1, out)
    \/ DevLoginStart(1, <<"k">>)
    \/ \E out \in Outcomes : DevLoginLookup(1, out)
    \/ StudentStart(1, <<"k">>)
    \/ \E out \in Outcomes : StudentLookup(1, out)
    \/ UpdateStart(1, <<"k">>, TRUE, [f \in {"GPA"} |-> "'3.9'"])
    \/ \E out \in Outcomes : UpdateLookup(1, out)
    \/ \E ok \in BOOLEAN : UpdateWrite(1, ok)
    \/ MentorsStart(1)
    \/ \E ok \in BOOLEAN : MentorsAll(1, ok)
    \/ ChatStart(1, <<"hi">>)
    \/ \E out \in ChatOutcomes : ChatCreate(1, out)
    \/ Tick
    \/ Sent

SpecFrame == InitFrame /\ [][NextFrame]_vars

----------------------------------------------------------------------------
(* Properties *)

FifteenMinutes == 15 * 60

VerifyAnswered == last.op = "verify" /\ last.pc = "done"

\* the answered verify call is the first that found its token in the store
FirstFinder == VerifyAnswered /\ last.tokenData # <<>> /\ found[last.token] = 1

(* C1: one-time use. For every token at most one verify call ever returns  *)
(* a session, and every verify call for a token other than the first call  *)
(* that found it in the store, once some call has found it, returns 401.   *)
C1_OneTimeUse ==
    /\ \A t \in Tokens : sessions[t] <= 1
    /\ (VerifyAnswered /\ last.token # 0 /\ found[last.token] >= 1 /\ ~FirstFinder)
          => last.resp.status = 401 /\ last.resp.session = <<>>

\* a second attempt, made inside the expiry window after a session was
\* returned for the token, is answered 401
C1_Witness ==
    /\ VerifyAnswered /\ last.tokenData = <<>> /\ last.resp.status = 401
    /\ sessions[last.token] = 1
    /\ now < issued[last.token].at + FifteenMinutes

(* C2, as stated: a token issued for a student who is (still) in the record *)
(* store, and not yet redeemed, is rejected with 401 (and removed) by       *)
(* verify at every time after t0 + 15 min, and verify returns a session at  *)
(* every time t0 <= t < t0 + 15 min.                                        *)
C2_AsStated ==
    (FirstFinder /\ Matching(issued[last.token].email) # {}) =>
        LET t0 == issued[last.token].at
            t == last.checkedAt
        IN  /\ t > t0 + FifteenMinutes =>
                 last.resp.status = 401 /\ last.token \notin DOMAIN magicLinkTokens
            /\ (t0 <= t /\ t < t0 + FifteenMinutes) =>
                 last.resp.status = 200 /\ last.resp.session # <<>>

(* C2, amended: an issued token stays in the store until a verify call      *)
(* finds it; that call rejects it with 401 and removes it at every time     *)
(* after t0 + 15 min, and at every time t0 <= t < t0 + 15 min it accepts    *)
(* it (no 401) and returns a session exactly when the lookup of the bound   *)
(* email returns a student record (404 when none, 500 when it throws).      *)
C2_ExpiryWindow ==
    /\ \A t \in DOMAIN issued : found[t] = 0 => t \in DOMAIN magicLinkTokens
    /\ FirstFinder =>
        LET t0 == issued[last.token].at
            t == last.checkedAt
        IN  /\ t > t0 + FifteenMinutes =>
                 last.resp.status = 401 /\ last.token \notin DOMAIN magicLinkTokens
            /\ (t0 <= t /\ t < t0 + FifteenMinutes) =>
                 /\ last.resp.status \in {200, 404, 500}
                 /\ last.resp.status = 200 <=> last.records \in RecordIds
                 /\ last.resp.status = 200 => last.resp.session # <<>>
                 /\ last.resp.status = 404 <=> last.records = "none"

\* a token tried 15 min + 1 s after its issuance is rejected and removed
C2_Witness ==
    /\ FirstFinder
    /\ last.checkedAt = issued[last.token].at + FifteenMinutes + 1
    /\ last.resp.status = 401
    /\ last.token \notin DOMAIN magicLinkTokens

(* C3: concurrent redemption. However the segments of the verify handlers   *)
(* interleave, at most one verify call per token passes the existence and   *)
(* expiry check (so at most one is at its lookup), and a call for a token   *)
(* that does not pass returns 401.                                          *)
C3_ConcurrentRedemption ==
    /\ \A t \in Tokens :
          /\ passed[t] <= 1
          /\ Cardinality({r \in Slots : req[r].op = "verify" /\ req[r].pc = "lookup"
                                         /\ req[r].token = t}) <= 1
    /\ (VerifyAnswered /\ last.token # 0 /\ last.calls = 0)
          => last.resp.status = 401

\* a second verify call for the token is answered 401 while the first one,
\* which passed the check, still awaits its lookup
C3_Witness ==
    /\ VerifyAnswered /\ last.resp.status = 401
    /\ \E r \in Slots : /\ req[r].op = "verify" /\ req[r].pc = "lookup"
                        /\ req[r].token = last.token

C5_IssuanceAddsOneEntry ==
    [][\A r \in Slots, id \in RecordIds :
          MagicLinkLookup(r, id) =>
             \E t \in DOMAIN magicLinkTokens' :
                /\ t \notin DOMAIN magicLinkTokens
                /\ t \notin DOMAIN issued
                /\ magicLinkTokens' =
                      (t :> [email |-> Normalize(req[r].email),
                             expiresAt |-> now + FifteenMinutes]) @@ magicLinkTokens]_vars

\* a second link for the same email, issued later than the first: both are
\* in the store
C5_Witness ==
    /\ last.op = "magic-link" /\ last.resp.status = 200
    /\ last.email = <<"J", " ">>
    /\ \E t \in DOMAIN magicLinkTokens :
          /\ t # last.issuedToken
          /\ magicLinkTokens[t].email = <<"j">>
          /\ magicLinkTokens[t].expiresAt < magicLinkTokens[last.issuedToken].expiresAt

(* C6: redemption consumes the token whatever follows. A verify call that   *)
(* found its token unexpired has removed it while it awaits the lookup and  *)
(* after it; it answers with a session when the lookup returns the student, *)
(* 404 and no session when it returns none, 500 and no session when it      *)
(* throws.                                                                  *)
C6_ConsumedRegardless ==
    /\ \A r \in Slots : (req[r].op = "verify" /\ req[r].pc = "lookup")
                           => req[r].token \notin DOMAIN magicLinkTokens
    /\ (VerifyAnswered /\ last.calls = 1) =>
          /\ last.token \notin DOMAIN magicLinkTokens
          /\ last.records = "none" => last.resp.status = 404 /\ last.resp.session = <<>>
          /\ last.records = "throw" => last.resp.status = 500 /\ last.resp.session = <<>>
          /\ last.records \in RecordIds =>
                last.resp.status = 200 /\ last.resp.session # <<>>

\* the student is gone when a valid token is redeemed: 404, the token consumed
C6_Witness ==
    /\ VerifyAnswered /\ last.records = "none" /\ last.resp.status = 404
    /\ last.checkedAt <= last.tokenData[1].expiresAt
    /\ last.token \notin DOMAIN magicLinkTokens

(* C7: verify returns a session only for a token that was in the store,     *)
(* as issued, and unexpired when the call looked it up, and the student     *)
(* returned is the record of the email the token was issued for.            *)
C7_SessionOnlyForValidToken ==
    (VerifyAnswered /\ last.resp.session # <<>>) =>
        /\ last.tokenData # <<>>
        /\ last.token \in DOMAIN issued
        /\ last.tokenData[1].email = issued[last.token].email
        /\ last.checkedAt <= last.tokenData[1].expiresAt
        /\ last.resp.student # <<>>
        /\ last.resp.student[1].email = issued[last.token].email
        /\ last.resp.student[1].id \in RecordIds
        /\ InitialStudents[last.resp.student[1].id].email = issued[last.token].email

\* two tokens issued for different emails; the first is redeemed
C7_Witness ==
    /\ VerifyAnswered /\ last.resp.session # <<>>
    /\ \E u \in DOMAIN issued :
          u > last.token /\ issued[u].email # issued[last.token].email

(* C8: whenever DEV_MODE is not 'true', every dev-login call is answered    *)
(* 403 at once, whatever its payload: it makes no record-store call, no     *)
(* dev-login handler is ever past the flag check, and no session is         *)
(* minted.                                                                  *)
C8_DevBypassForbidden ==
    devMode # "true" =>
        /\ \A r \in Slots : req[r].op # "dev-login"
        /\ nextUuid = 1
        /\ last.op = "dev-login" =>
              /\ last.resp.status = 403
              /\ last.calls = 0
              /\ last.resp.session = <<>> /\ last.resp.student = <<>>

\* DEV_MODE unset, the email of an existing student: 403
C8_Witness ==
    /\ devMode = "unset"
    /\ last.op = "dev-login" /\ last.email = <<"k">>
    /\ Matching(Normalize(last.email)) # {}
    /\ last.resp.status = 403

(* C9: email normalization for all lookups. Two requests to the same        *)
(* operation whose emails differ only in letter case and in leading or      *)
(* trailing whitespace, awaiting their lookup against the same record       *)
(* store, resolve to the same records and the same found / not-found        *)
(* outcome.                                                                 *)
C9_NormalizedLookups ==
    \A r1, r2 \in Slots :
        ( /\ req[r1].pc = "lookup" /\ req[r2].pc = "lookup"
          /\ req[r1].op = req[r2].op
          /\ Normalize(req[r1].email) = Normalize(req[r2].email) )
        => /\ Matching(req[r1].normalizedEmail) = Matching(req[r2].normalizedEmail)
           /\ LookupOutcomes(req[r1].normalizedEmail)
                 = LookupOutcomes(req[r2].normalizedEmail)

----------------------------------------------------------------------------
(* Hydration *)

\* a student fetch or update has answered with a hydrated student
Hydrated ==
    /\ last.op \in {"student", "update"} /\ last.pc = "done"
    /\ last.student # <<>>

\* the i-th smallest element of a set of numbers
Nth(S, k) == CHOOSE i \in S : Cardinality({j \in S : j < i}) = k - 1

(* C11: ordered meeting hydration. However the meeting lookups of a student  *)
(* interleave and in whatever order they return, the meetings of the         *)
(* response are the meetings whose lookup returned a record, in the order    *)
(* of the student's meeting ids: all of them when every lookup succeeded,    *)
(* and nothing in the place of one that failed.                              *)
C11_OrderedMeetings ==
    (Hydrated /\ last.tasks # <<>>) =>
        LET ids == last.student[1].fields.meetings
            ok == {i \in DOMAIN last.tasks : last.tasks[i].val # <<>>}
            out == last.resp.student[1].meetings
        IN  /\ last.resp.status = 200
            /\ DOMAIN last.tasks = DOMAIN ids
            /\ Len(out) = Cardinality(ok)
            /\ \A k \in DOMAIN out : out[k].id = ids[Nth(ok, k)]
            /\ ok = DOMAIN ids => [k \in DOMAIN out |-> out[k].id] = ids

\* the third lookup returned first, the second one failed: the response
\* holds the first and the third meeting, in that order
C11_Witness ==
    /\ Hydrated /\ last.settled = <<3, 1, 2>>
    /\ last.tasks[2].val = <<>>
    /\ [k \in DOMAIN last.resp.student[1].meetings |->
          last.resp.student[1].meetings[k].id] = <<"mtgA", "mtgC">>

\* the links of the hydrated student that are left out: linked mentors
\* without their field, meetings missing, meetings without the mentor
Omitted(st) ==
    (IF st.fields.rm # <<>> /\ st.recruitmentManager = <<>> THEN 1 ELSE 0)
    + (IF st.fields.lm # <<>> /\ st.leadMentor = <<>> THEN 1 ELSE 0)
    + (Len(st.fields.meetings) - Len(st.meetings))
    + Cardinality({k \in DOMAIN st.meetings :
                      /\ st.meetings[k].mentorsAttended # <<>>
                      /\ st.meetings[k].mentorAttended = <<>>})

\* the lookups hydrateStudent made for the mentors of meetings: all it made
\* but those of the Recruitment Manager, the Lead Mentor and the meetings
MeetingMentorLookups(q) ==
    q.lookups - (IF q.student[1].fields.rm # <<>> THEN 1 ELSE 0)
              - (IF q.student[1].fields.lm # <<>> THEN 1 ELSE 0)
              - Len(q.student[1].fields.meetings)

(* C12: null-safe degrade. Once the student record is there, the request    *)
(* is answered 200 with the student whatever the linked lookups do: each     *)
(* lookup that fails leaves out exactly its own field (recruitmentManager,   *)
(* leadMentor, a meeting's mentorAttended, or a meeting), a mentor that does *)
(* not resolve leaves its meeting in, and every field that is there holds    *)
(* the linked record.                                                        *)
C12_NullSafeDegrade ==
    Hydrated =>
        LET st == last.resp.student[1] IN
        /\ last.resp.status = 200 /\ last.resp.error = ""
        /\ last.resp.student = last.student
        /\ Omitted(st) = last.failed
        /\ Cardinality({k \in DOMAIN st.meetings : st.meetings[k].mentorsAttended # <<>>})
              = MeetingMentorLookups(last)
        /\ st.recruitmentManager # <<>> => st.recruitmentManager[1] = Mentors[st.fields.rm[1]]
        /\ st.leadMentor # <<>> => st.leadMentor[1] = Mentors[st.fields.lm[1]]
        /\ \A k \in DOMAIN st.meetings :
              /\ st.meetings[k].id \in DOMAIN Meetings
              /\ st.meetings[k].mentorsAttended = Meetings[st.meetings[k].id].mentorsAttended
              /\ st.meetings[k].mentorAttended # <<>> =>
                    st.meetings[k].mentorAttended[1] = Mentors[st.meetings[k].mentorsAttended[1]]

\* the Recruitment Manager and the Lead Mentor do not resolve, nor does the
\* mentor of the third meeting: the three meetings are there, the first
\* with its mentor
C12_Witness ==
    /\ Hydrated /\ last.failed = 3
    /\ last.resp.student[1].recruitmentManager = <<>>
    /\ last.resp.student[1].leadMentor = <<>>
    /\ Len(last.resp.student[1].meetings) = 3
    /\ last.resp.student[1].meetings[1].mentorAttended # <<>>
    /\ last.resp.student[1].meetings[3].mentorAttended = <<>>

\* a record without links
Unlinked(st) == st.fields.rm = <<>> /\ st.fields.lm = <<>> /\ st.fields.meetings = <<>>

(* C13: hydrating a record whose three link fields are absent or empty      *)
(* makes no lookup and awaits none, and the request is answered with a       *)
(* student without recruitmentManager and leadMentor and with no meetings;   *)
(* it does not fail.                                                         *)
C13_NoLinksNoLookups ==
    /\ \A r \in Slots :
          (req[r].student # <<>> /\ Unlinked(req[r].student[1]))
             => req[r].pc \notin {"rm", "lm", "meetings"}
    /\ (Hydrated /\ Unlinked(last.student[1])) =>
          /\ last.lookups = 0 /\ last.failed = 0
          /\ last.resp.status = 200
          /\ last.resp.student[1].recruitmentManager = <<>>
          /\ last.resp.student[1].leadMentor = <<>>
          /\ last.resp.student[1].meetings = <<>>

\* the fetch of a student without links is answered
C13_Witness ==
    /\ Hydrated /\ last.op = "student" /\ last.records = "recK"
    /\ Unlinked(last.student[1])
    /\ last.resp.status = 200

(* C17: hydration fan-out is concurrent. Within one hydrateStudent call the  *)
(* lookups of the Recruitment Manager, of the Lead Mentor and of the         *)
(* meetings are all started before any of them is awaited: while the         *)
(* Recruitment Manager's lookup is in flight, so are the Lead Mentor's (when *)
(* linked) and those of all the meetings.                                    *)
C17_ConcurrentFanOut ==
    \A r \in Slots :
        (req[r].student # <<>> /\ "rm" \in InFlight(req[r])) =>
            LET f == req[r].student[1].fields IN
            /\ f.lm # <<>> => "lm" \in InFlight(req[r])
            /\ DOMAIN f.meetings \subseteq InFlight(req[r])

----------------------------------------------------------------------------
(* Failures of the collaborators *)

\* a request has been answered
Answered == last.pc = "done"

(* C16, as stated: whenever a call to the record store, the email sender or  *)
(* the chat collaborator has failed while a request was handled, the         *)
(* request is answered 500.                                                  *)
C16_AsStated == (Answered /\ last.failed > 0) => last.resp.status = 500

(* C16, amended: a failed call whose error reaches the handler's catch       *)
(* (every call but the linked-record lookups of hydration) ends the handler  *)
(* at once, with no further call, in one response of status 500 that has an  *)
(* error and the error's message; a failed lookup of a linked record during  *)
(* hydration is swallowed, and the student is returned with 200; the server  *)
(* accepts the next request after any response; and every request that is    *)
(* being handled is eventually answered.                                     *)
C16_FailurePropagation ==
    /\ [](req[1].failure = "")
    /\ []((Answered /\ last.failed > 0) =>
            IF last.failure # ""
            THEN /\ last.resp.status = 500 /\ last.resp.error # ""
                 /\ last.resp.details \in ErrorMessages
                 /\ last.failed = 1
                 /\ last.resp.student = <<>> /\ last.resp.session = <<>>
            ELSE Hydrated /\ last.resp.status = 200)
    /\ []((last = Idle /\ Free(1)) => ENABLED MentorsStart(1))
    /\ (~Free(1)) ~> (Answered /\ Free(1))

\* the chat collaborator fails and the request is answered 500, after a
\* magic link was issued and its email accepted
C16_Witness ==
    /\ Answered /\ last.op = "chat" /\ last.failure = "create"
    /\ last.resp.status = 500
    /\ outbox # {}

----------------------------------------------------------------------------
(* The token store as a whole *)

\* the token store without the entry of token
Without(token) == [t \in DOMAIN magicLinkTokens \ {token} |-> magicLinkTokens[t]]

\* what magicLinkTokens.set stored for an issued token
AsIssued(t) == [email |-> issued[t].email, expiresAt |-> issued[t].at + FifteenMinutes]

(* C18: token store frame. A step changes the token store only if it is the *)
(* issuance of a magic link for a known email, which adds one entry, or a    *)
(* verify call, which removes the entry of the token it submits; every other *)
(* step (dev-login, the session minted by verify, student fetch and update,  *)
(* mentors, chat, the passing of time) leaves it unchanged; and a token that *)
(* no verify call has submitted is in the store as issued, at any time.      *)
C18_TokenStoreFrame ==
    /\ [][magicLinkTokens' # magicLinkTokens =>
            \/ \E id \in RecordIds, t \in Tokens :
                  /\ MagicLinkLookup(1, id)
                  /\ t \notin DOMAIN magicLinkTokens
                  /\ DOMAIN magicLinkTokens' = DOMAIN magicLinkTokens \cup {t}
                  /\ \A u \in DOMAIN magicLinkTokens :
                        magicLinkTokens'[u] = magicLinkTokens[u]
            \/ \E token \in DOMAIN magicLinkTokens :
                  /\ VerifyStart(1, token)
                  /\ magicLinkTokens' = Without(token)]_vars
    /\ [](\A t \in DOMAIN issued :
             found[t] = 0 => /\ t \in DOMAIN magicLinkTokens
                             /\ magicLinkTokens[t] = AsIssued(t))

\* a dev-login is answered with a session while a token that was never
\* submitted is in the store, its expiry time passed
C18_Witness ==
    /\ last.op = "dev-login" /\ last.resp.status = 200 /\ last.resp.session # <<>>
    /\ \E t \in DOMAIN magicLinkTokens :
          found[t] = 0 /\ now > magicLinkTokens[t].expiresAt

(* C19: outstanding tokens are independent. Whatever happens to the other   *)
(* tokens (issued before or after, for the same email or another, redeemed, *)
(* expired or still outstanding), a token that no verify call has found yet  *)
(* is in the store exactly as it was issued; the first verify call that      *)
(* finds it rejects it if and only if its own 15 minutes have passed; and it *)
(* passes the check, and yields a session, at most once.                     *)
C19_IndependentTokens ==
    /\ \A t \in DOMAIN issued :
          /\ found[t] = 0 => /\ t \in DOMAIN magicLinkTokens
                              /\ magicLinkTokens[t] = AsIssued(t)
          /\ passed[t] <= 1 /\ sessions[t] <= passed[t]
    /\ FirstFinder =>
          /\ last.tokenData[1] = AsIssued(last.token)
          /\ last.resp.status = 401
                <=> last.checkedAt > issued[last.token].at + FifteenMinutes

\* two links issued for the same email: the one issued later is redeemed
\* after the earlier one was, each for a session
C19_Witness ==
    /\ FirstFinder /\ last.resp.session # <<>>
    /\ \E u \in DOMAIN issued :
          /\ u < last.token
          /\ issued[u].email = issued[last.token].email
          /\ sessions[u] = 1

----------------------------------------------------------------------------
(* Delivery of the magic link *)

\* a magic-link request has been answered
IssuanceAnswered == last.op = "magic-link" /\ Answered

(* C14: link exposure. The response to a magic-link request that issued a   *)
(* link contains the link (and so the token) if and only if no email        *)
(* delivery is configured; with delivery configured no response of the      *)
(* endpoint, success or error, contains the link or the token.              *)
C14_LinkExposure ==
    IssuanceAnswered =>
        /\ last.issuedToken # 0 =>
              (last.resp.magicLink = <<last.issuedToken>> <=> ~resend)
        /\ last.resp.magicLink # <<>> =>
              (~resend /\ last.resp.status = 200 /\ last.resp.devMode)
        /\ resend =>
              /\ last.resp.magicLink = <<>>
              /\ ~last.resp.devMode
              /\ last.resp.details \in ErrorMessages \cup {""}
              /\ last.resp.session = <<>> /\ last.resp.student = <<>>

\* with delivery configured a link is issued and its email accepted: the
\* response is a success without the link
C14_Witness ==
    /\ IssuanceAnswered /\ resend
    /\ last.resp.status = 200
    /\ last.resp.magicLink = <<>>
    /\ [to |-> last.normalizedEmail, link |-> last.issuedToken] \in outbox

\* the responses a catch block can give
CaughtResponses ==
    {Caught(e, message) : e \in {"Failed to send magic link", "Verification failed"},
                          message \in ErrorMessages}

(* C15: during issuance, a failure of the email send and a failure of the    *)
(* student lookup are never answered alike: with one request awaiting its    *)
(* send and another its lookup, no response that the first can get when the  *)
(* send throws is one that the second can get when the lookup throws.        *)
C15_DistinctFailures ==
    \A r1, r2 \in Slots :
        (At(r1, "magic-link", "send") /\ At(r2, "magic-link", "lookup")) =>
            \A resp \in CaughtResponses :
                ~ /\ ENABLED (MagicLinkSend(r1, FALSE) /\ last'.resp = resp)
                  /\ ENABLED (MagicLinkLookup(r2, "throw") /\ last'.resp = resp)

\* no email of the link was accepted, and none is being sent
Undelivered(t) ==
    /\ \A m \in outbox : m.link # t
    /\ \A r \in Slots : req[r].issuedToken # t

(* C20: issuance is not rolled back on delivery failure. A magic-link       *)
(* request whose email send throws is answered 500 and leaves the token it   *)
(* stored in the store, as issued; the token stays there until a verify call *)
(* submits it, and that call redeems it unless its 15 minutes have passed.   *)
C20_NoRollback ==
    /\ (IssuanceAnswered /\ last.failure = "send") =>
          /\ last.resp.status = 500 /\ last.resp.magicLink = <<>>
          /\ last.issuedToken \in DOMAIN magicLinkTokens
          /\ magicLinkTokens[last.issuedToken] = AsIssued(last.issuedToken)
    /\ \A t \in DOMAIN issued :
          (Undelivered(t) /\ found[t] = 0) =>
              /\ t \in DOMAIN magicLinkTokens
              /\ magicLinkTokens[t] = AsIssued(t)
    /\ (FirstFinder /\ Undelivered(last.token)) =>
          /\ last.resp.status = 401 <=> last.checkedAt > last.tokenData[1].expiresAt
          /\ last.resp.status = 200 <=>
                (last.checkedAt <= last.tokenData[1].expiresAt
                 /\ last.records \in RecordIds)
          /\ last.resp.status = 200 => last.resp.session # <<>>

\* the token of a link whose email failed is redeemed for a session, 15
\* minutes after it was issued
C20_Witness ==
    /\ FirstFinder /\ Undelivered(last.token)
    /\ last.resp.session # <<>>
    /\ last.checkedAt = issued[last.token].at + FifteenMinutes

====
